---- MODULE Spec2Model ----
(***************************************************************************)
(* A model of frontend/src/services/api.ts: the HTTP access layer with its *)
(* three sub-clients documentsApi, patientsApi and chatApi.                *)
(*                                                                         *)
(* Every async function is split at its await of the transport: the part   *)
(* before it builds and sends the request (action named as the function),  *)
(* the part after it runs when the transport settles (action <name>_resume)*)
(* and takes the transport's answer as its input.                          *)
(***************************************************************************)
EXTENDS Integers, Sequences, FiniteSets, TLC

VARIABLES env, API_BASE_URL, api, calls

vars == <<env, API_BASE_URL, api, calls>>

(***************************************************************************)
(* Bounds of the model.                                                    *)
(***************************************************************************)
MaxCalls == 2
MaxIds == 2
MaxFiles == 2
MaxLimit == 25

CallIds == 1..MaxCalls

(***************************************************************************)
(* JavaScript values, tagged by type.                                      *)
(***************************************************************************)
Undefined == [t |-> "undefined"]
Null == [t |-> "null"]
Str(s) == [t |-> "string", v |-> s]
Num(n) == [t |-> "number", v |-> n]
Arr(a) == [t |-> "array", v |-> a]
File(n) == [t |-> "file", name |-> n]
Patient(id) == [t |-> "object", id |-> id]

\* ToBoolean: undefined, null, "" and 0 are falsy; objects and arrays are truthy.
Truthy(v) ==
  /\ v.t \notin {"undefined", "null"}
  /\ ~(v.t = "string" /\ v.v = "")
  /\ ~(v.t = "number" /\ v.v = 0)

\* a || b
Or(a, b) == IF Truthy(a) THEN a ELSE b

\* JSON.stringify of an object literal: a property whose value is undefined
\* is left out, every other property (null included) is written.
JSONstringify(obj) ==
  [t |-> "json", v |-> [k \in {k \in DOMAIN obj : obj[k] # Undefined} |-> obj[k]]]

NoBody == [t |-> "none"]
NoHeaders == [k \in {} |-> ""]
NoQuery == <<>>

(***************************************************************************)
(* Module initialisation: API_BASE_URL and the axios instance.             *)
(***************************************************************************)
DefaultBaseUrl == Str("http://localhost:8000")

\* The origin of the document that runs the client; fetch resolves a
\* relative URL such as '/api/patients/' against it.
PageOrigin == Str("http://localhost:3000")

EnvValues == {Undefined, Str(""), Str("https://api.example.com")}

BaseUrlOf(e) == Or(e, DefaultBaseUrl)

axios_create(baseURL) ==
  [baseURL |-> baseURL, headers |-> ("Content-Type" :> "application/json")]

(***************************************************************************)
(* Requests and the two transports.                                        *)
(***************************************************************************)
\* api.get / api.post: the URL is baseURL followed by the path, the headers
\* are the instance's defaults overridden by the call's own.
axiosRequest(method, path, body, headers) ==
  [transport |-> "axios", method |-> method, origin |-> api.baseURL,
   path |-> path, query |-> NoQuery, headers |-> headers @@ api.headers,
   body |-> body]

\* fetch(url, init): a relative URL, no default headers.
fetchRequest(method, path, query, body, headers) ==
  [transport |-> "fetch", method |-> method, origin |-> PageOrigin,
   path |-> path, query |-> query, headers |-> headers, body |-> body]

\* What the transport answers: no response at all, or a status and a body.
NetworkError == [t |-> "network-error"]
Malformed == [t |-> "malformed"]
Envelope(patient, patients, session_id) ==
  [t |-> "object", patient |-> patient, patients |-> patients,
   session_id |-> session_id]

\* Variant: only 5xx counts as a failure.
ok_below500(status) == status >= 200 /\ status <= 499

\* Response.ok, and axios's default validateStatus.
ok(status) == status >= 200 /\ status <= 299

Error(message) == [t |-> "error", name |-> "Error", message |-> message]
TypeError == [t |-> "error", name |-> "TypeError", message |-> "fetch failed"]
SyntaxError == [t |-> "error", name |-> "SyntaxError", message |-> "invalid JSON"]
AxiosError == [t |-> "error", name |-> "AxiosError", message |-> "request failed"]

(***************************************************************************)
(* A call of one of the exported functions.                                *)
(***************************************************************************)
IdleCall ==
  [pc |-> "idle", op |-> "none", args |-> Undefined, requests |-> <<>>,
   parsed |-> FALSE, response |-> Undefined, result |-> Undefined]

\* The call has run up to its await of the transport: the request is out.
sent(call, op, args, request) ==
  [call EXCEPT !.pc = "awaiting", !.op = op, !.args = args,
               !.requests = Append(@, request)]

awaiting(c, op) == calls[c].pc = "awaiting" /\ calls[c].op = op

\* throw: the promise of the call rejects.
rejected(call, response, parsed, error) ==
  [call EXCEPT !.pc = "rejected", !.response = response, !.parsed = parsed,
               !.result = error]

\* return: the promise of the call resolves.
resolved(call, response, parsed, value) ==
  [call EXCEPT !.pc = "resolved", !.response = response, !.parsed = parsed,
               !.result = value]

\* Variant: a failed request is sent once more instead of being reported.
axiosSettled_retry(call, response, data) ==
  IF response = NetworkError \/ ~ok(response.status)
    THEN [call EXCEPT !.requests = Append(@, @[1])]
    ELSE resolved(call, response, FALSE, data)

\* await api.get(...) / await api.post(...), then `data` of the response:
\* axios rejects by itself when there is no response or its status is
\* outside 2xx; this layer never calls response.json().
axiosSettled(call, response, data) ==
  IF response = NetworkError \/ ~ok(response.status)
    THEN rejected(call, response, FALSE, AxiosError)
    ELSE resolved(call, response, FALSE, data)

unchangedConfig == UNCHANGED <<env, API_BASE_URL, api>>

(***************************************************************************)
(* documentsApi                                                            *)
(***************************************************************************)
\* The headers the two uploads pass to api.post beside their FormData.
MultipartHeaders == "Content-Type" :> "multipart/form-data"

\* FormData: the entries in the order of their append.
Entry(name, value) == [name |-> name, value |-> value]
Form(entries) == [t |-> "form", v |-> entries]

\* Variant: formData.set('files', f), which keeps the last file only.
appendFiles_set(formData, files) ==
  IF Len(files) = 0 THEN formData
  ELSE formData \o <<Entry("files", files[Len(files)])>>

\* files.forEach(f => formData.append('files', f))
appendFiles(formData, files) ==
  formData \o [i \in 1..Len(files) |-> Entry("files", files[i])]

\* Variant: the multipart Content-Type is written into the defaults of the
\* shared axios instance instead of the headers of this request.
uploadDocument_setsDefaults(c, file) ==
  /\ calls[c].pc = "idle"
  /\ calls' = [calls EXCEPT ![c] =
       sent(@, "uploadDocument", [file |-> file],
            axiosRequest("POST", "/api/documents/upload",
                         Form(<<Entry("file", file)>>), MultipartHeaders))]
  /\ api' = [api EXCEPT !.headers = MultipartHeaders]
  /\ UNCHANGED <<env, API_BASE_URL>>

uploadDocument(c, file) ==
  /\ calls[c].pc = "idle"
  /\ calls' = [calls EXCEPT ![c] =
       sent(@, "uploadDocument", [file |-> file],
            axiosRequest("POST", "/api/documents/upload",
                         Form(<<Entry("file", file)>>), MultipartHeaders))]
  /\ unchangedConfig

uploadDocument_resume(c, response) ==
  /\ awaiting(c, "uploadDocument")
  /\ calls' = [calls EXCEPT ![c] = axiosSettled(@, response, response.body)]
  /\ unchangedConfig

uploadDocuments(c, files) ==
  /\ calls[c].pc = "idle"
  /\ calls' = [calls EXCEPT ![c] =
       sent(@, "uploadDocuments", [files |-> files],
            axiosRequest("POST", "/api/documents/upload-multiple",
                         Form(appendFiles(<<>>, files.v)), MultipartHeaders))]
  /\ unchangedConfig

uploadDocuments_resume(c, response) ==
  /\ awaiting(c, "uploadDocuments")
  /\ calls' = [calls EXCEPT ![c] = axiosSettled(@, response, response.body)]
  /\ unchangedConfig

getSupportedTypes(c) ==
  /\ calls[c].pc = "idle"
  /\ calls' = [calls EXCEPT ![c] =
       sent(@, "getSupportedTypes", Undefined,
            axiosRequest("GET", "/api/documents/supported-types",
                         NoBody, NoHeaders))]
  /\ unchangedConfig

getSupportedTypes_resume(c, response) ==
  /\ awaiting(c, "getSupportedTypes")
  /\ calls' = [calls EXCEPT ![c] = axiosSettled(@, response, response.body)]
  /\ unchangedConfig

(***************************************************************************)
(* patientsApi                                                             *)
(***************************************************************************)
JsonHeaders == "Content-Type" :> "application/json"

\* Variant: the server-computed fields are copied from the input.
createPatientBody_copiesInput(patientData) ==
  [name |-> patientData.name,
   date_of_birth |-> patientData.date_of_birth,
   diagnosis |-> Or(patientData.diagnosis, Null),
   prescription |-> Or(patientData.prescription, Null),
   confidence_score |-> patientData.confidence_score,
   raw_text |-> patientData.raw_text]

\* The object literal that createPatient serialises.
createPatientBody(patientData) ==
  [name |-> patientData.name,
   date_of_birth |-> patientData.date_of_birth,
   diagnosis |-> Or(patientData.diagnosis, Null),
   prescription |-> Or(patientData.prescription, Null),
   confidence_score |-> Null,
   raw_text |-> Null]

\* Variant: the defaults of createPatient applied to an update.
updatePatientBody_defaults(patientData) ==
  [name |-> patientData.name,
   date_of_birth |-> patientData.date_of_birth,
   diagnosis |-> Or(patientData.diagnosis, Null),
   prescription |-> Or(patientData.prescription, Null)]

\* The object literal that updatePatient serialises.
updatePatientBody(patientData) ==
  [name |-> patientData.name,
   date_of_birth |-> patientData.date_of_birth,
   diagnosis |-> patientData.diagnosis,
   prescription |-> patientData.prescription]

createPatient(c, patientData) ==
  /\ calls[c].pc = "idle"
  /\ calls' = [calls EXCEPT ![c] =
       sent(@, "createPatient", [patientData |-> patientData],
            fetchRequest("POST", "/api/patients/", NoQuery,
              JSONstringify(createPatientBody(patientData)),
              JsonHeaders))]
  /\ unchangedConfig

createPatient_resume(c, response) ==
  /\ awaiting(c, "createPatient")
  /\ calls' = [calls EXCEPT ![c] =
       IF response = NetworkError
         THEN rejected(@, response, FALSE, TypeError)
       ELSE IF ~ok(response.status)
         THEN rejected(@, response, FALSE, Error("Failed to create patient"))
       ELSE IF response.body = Malformed
         THEN rejected(@, response, TRUE, SyntaxError)
       ELSE resolved(@, response, TRUE, response.body.patient)]
  /\ unchangedConfig

getPatients(c) ==
  /\ calls[c].pc = "idle"
  /\ calls' = [calls EXCEPT ![c] =
       sent(@, "getPatients", Undefined,
            fetchRequest("GET", "/api/patients/", NoQuery, NoBody, NoHeaders))]
  /\ unchangedConfig

\* Variant: `return result.patients` without the `|| []`.
getPatients_resume_noDefault(c, response) ==
  /\ awaiting(c, "getPatients")
  /\ calls' = [calls EXCEPT ![c] =
       IF response = NetworkError
         THEN rejected(@, response, FALSE, TypeError)
       ELSE IF ~ok(response.status)
         THEN rejected(@, response, FALSE, Error("Failed to fetch patients"))
       ELSE IF response.body = Malformed
         THEN rejected(@, response, TRUE, SyntaxError)
       ELSE resolved(@, response, TRUE, response.body.patients)]
  /\ unchangedConfig

getPatients_resume(c, response) ==
  /\ awaiting(c, "getPatients")
  /\ calls' = [calls EXCEPT ![c] =
       IF response = NetworkError
         THEN rejected(@, response, FALSE, TypeError)
       ELSE IF ~ok(response.status)
         THEN rejected(@, response, FALSE, Error("Failed to fetch patients"))
       ELSE IF response.body = Malformed
         THEN rejected(@, response, TRUE, SyntaxError)
       ELSE resolved(@, response, TRUE, Or(response.body.patients, Arr(<<>>)))]
  /\ unchangedConfig

getPatient(c, id) ==
  /\ calls[c].pc = "idle"
  /\ calls' = [calls EXCEPT ![c] =
       sent(@, "getPatient", [id |-> id],
            fetchRequest("GET", "/api/patients/" \o id, NoQuery, NoBody,
                         NoHeaders))]
  /\ unchangedConfig

getPatient_resume(c, response) ==
  /\ awaiting(c, "getPatient")
  /\ calls' = [calls EXCEPT ![c] =
       IF response = NetworkError
         THEN rejected(@, response, FALSE, TypeError)
       ELSE IF ~ok(response.status)
         THEN rejected(@, response, FALSE, Error("Failed to fetch patient"))
       ELSE IF response.body = Malformed
         THEN rejected(@, response, TRUE, SyntaxError)
       ELSE resolved(@, response, TRUE, response.body.patient)]
  /\ unchangedConfig

updatePatient(c, id, patientData) ==
  /\ calls[c].pc = "idle"
  /\ calls' = [calls EXCEPT ![c] =
       sent(@, "updatePatient", [id |-> id, patientData |-> patientData],
            fetchRequest("PUT", "/api/patients/" \o id, NoQuery,
              JSONstringify(updatePatientBody(patientData)),
              JsonHeaders))]
  /\ unchangedConfig

updatePatient_resume(c, response) ==
  /\ awaiting(c, "updatePatient")
  /\ calls' = [calls EXCEPT ![c] =
       IF response = NetworkError
         THEN rejected(@, response, FALSE, TypeError)
       ELSE IF ~ok(response.status)
         THEN rejected(@, response, FALSE, Error("Failed to update patient"))
       ELSE IF response.body = Malformed
         THEN rejected(@, response, TRUE, SyntaxError)
       ELSE resolved(@, response, TRUE, response.body.patient)]
  /\ unchangedConfig

deletePatient(c, id) ==
  /\ calls[c].pc = "idle"
  /\ calls' = [calls EXCEPT ![c] =
       sent(@, "deletePatient", [id |-> id],
            fetchRequest("DELETE", "/api/patients/" \o id, NoQuery, NoBody,
                         NoHeaders))]
  /\ unchangedConfig

\* No response.json() on success: the promise resolves with undefined.
deletePatient_resume(c, response) ==
  /\ awaiting(c, "deletePatient")
  /\ calls' = [calls EXCEPT ![c] =
       IF response = NetworkError
         THEN rejected(@, response, FALSE, TypeError)
       ELSE IF ~ok(response.status)
         THEN rejected(@, response, FALSE, Error("Failed to delete patient"))
       ELSE resolved(@, response, FALSE, Undefined)]
  /\ unchangedConfig

(***************************************************************************)
(* chatApi                                                                 *)
(***************************************************************************)
sendMessage(c, message) ==
  /\ calls[c].pc = "idle"
  /\ calls' = [calls EXCEPT ![c] =
       sent(@, "sendMessage", [message |-> message],
            axiosRequest("POST", "/api/chat/", JSONstringify(message),
                         NoHeaders))]
  /\ unchangedConfig

sendMessage_resume(c, response) ==
  /\ awaiting(c, "sendMessage")
  /\ calls' = [calls EXCEPT ![c] = axiosSettled(@, response, response.body)]
  /\ unchangedConfig

refreshKnowledgeBase(c) ==
  /\ calls[c].pc = "idle"
  /\ calls' = [calls EXCEPT ![c] =
       sent(@, "refreshKnowledgeBase", Undefined,
            axiosRequest("POST", "/api/chat/refresh-knowledge-base",
                         NoBody, NoHeaders))]
  /\ unchangedConfig

\* await api.post(...) with nothing returned.
refreshKnowledgeBase_resume(c, response) ==
  /\ awaiting(c, "refreshKnowledgeBase")
  /\ calls' = [calls EXCEPT ![c] = axiosSettled(@, response, Undefined)]
  /\ unchangedConfig

sendMessageWithPatientContext(c, sessionId, query, files) ==
  /\ calls[c].pc = "idle"
  /\ LET formData == << Entry("session_id", Str(sessionId)),
                        Entry("query", Str(query)),
                        Entry("include_all_patients", Str("true")),
                        Entry("max_patients", Str("10")) >>
     IN calls' = [calls EXCEPT ![c] =
          sent(@, "sendMessageWithPatientContext",
               [sessionId |-> sessionId, query |-> query, files |-> files],
               fetchRequest("POST", "/api/patients/context/chat-query", NoQuery,
                 Form(IF Truthy(files) /\ Len(files.v) > 0
                        THEN appendFiles(formData, files.v)
                        ELSE formData),
                 NoHeaders))]
  /\ unchangedConfig

sendMessageWithPatientContext_resume(c, response) ==
  /\ awaiting(c, "sendMessageWithPatientContext")
  /\ calls' = [calls EXCEPT ![c] =
       IF response = NetworkError
         THEN rejected(@, response, FALSE, TypeError)
       ELSE IF ~ok(response.status)
         THEN rejected(@, response, FALSE, Error("Failed to get chat response"))
       ELSE IF response.body = Malformed
         THEN rejected(@, response, TRUE, SyntaxError)
       ELSE resolved(@, response, TRUE, response.body)]
  /\ unchangedConfig

\* Strings that are taken apart character by character are sequences of
\* one-character strings.
s_patient_ids == <<"p","a","t","i","e","n","t","_","i","d","s">>
s_limit == <<"l","i","m","i","t">>
s_include_recent == <<"i","n","c","l","u","d","e","_","r","e","c","e","n","t">>
s_true == <<"t","r","u","e">>

\* Array.prototype.join
RECURSIVE join(_, _)
join(a, sep) ==
  IF Len(a) = 0 THEN <<>>
  ELSE IF Len(a) = 1 THEN a[1]
  ELSE a[1] \o sep \o join(Tail(a), sep)

\* Number.prototype.toString of a non-negative integer.
DefaultLimit == 10
Digits == <<"0","1","2","3","4","5","6","7","8","9">>
RECURSIVE toString(_)
toString(n) ==
  IF n < 10 THEN <<Digits[n + 1]>>
  ELSE toString(n \div 10) \o <<Digits[(n % 10) + 1]>>

\* Variant: an encoder that leaves the comma as it is (encodeURI does).
percentEncode_keepsComma(ch) ==
  CASE ch = " " -> <<"+">>
    [] ch = "&" -> <<"%","2","6">>
    [] ch = "=" -> <<"%","3","D">>
    [] ch = "/" -> <<"%","2","F">>
    [] OTHER -> <<ch>>

\* The application/x-www-form-urlencoded serializer of URLSearchParams:
\* letters, digits, '*', '-', '.' and '_' are kept, a space becomes '+',
\* every other character is percent-encoded.
percentEncode(ch) ==
  CASE ch = " " -> <<"+">>
    [] ch = "," -> <<"%","2","C">>
    [] ch = "&" -> <<"%","2","6">>
    [] ch = "=" -> <<"%","3","D">>
    [] ch = "/" -> <<"%","2","F">>
    [] OTHER -> <<ch>>

RECURSIVE urlencode(_)
urlencode(s) ==
  IF Len(s) = 0 THEN <<>> ELSE percentEncode(s[1]) \o urlencode(Tail(s))

\* URLSearchParams.prototype.toString: name=value pairs joined by '&'.
RECURSIVE URLSearchParams_toString(_)
URLSearchParams_toString(params) ==
  IF Len(params) = 0 THEN <<>>
  ELSE urlencode(params[1][1]) \o <<"=">> \o urlencode(params[1][2])
       \o (IF Len(params) = 1 THEN <<>>
           ELSE <<"&">> \o URLSearchParams_toString(Tail(params)))

\* The separator of patientIds.join(',').
Comma == <<",">>

getPatientContext(c, patientIds, limit) ==
  /\ calls[c].pc = "idle"
  /\ LET lim == IF limit = Undefined THEN DefaultLimit ELSE limit.v
         params == (IF Truthy(patientIds) /\ Len(patientIds.v) > 0
                      THEN << <<s_patient_ids, join(patientIds.v, Comma)>> >>
                      ELSE <<>>)
                   \o << <<s_limit, toString(lim)>>,
                         <<s_include_recent, s_true>> >>
     IN calls' = [calls EXCEPT ![c] =
          sent(@, "getPatientContext",
               [patientIds |-> patientIds, limit |-> limit],
               fetchRequest("GET", "/api/patients/context/chat",
                            URLSearchParams_toString(params), NoBody,
                            NoHeaders))]
  /\ unchangedConfig

getPatientContext_resume(c, response) ==
  /\ awaiting(c, "getPatientContext")
  /\ calls' = [calls EXCEPT ![c] =
       IF response = NetworkError
         THEN rejected(@, response, FALSE, TypeError)
       ELSE IF ~ok(response.status)
         THEN rejected(@, response, FALSE, Error("Failed to get patient context"))
       ELSE IF response.body = Malformed
         THEN rejected(@, response, TRUE, SyntaxError)
       ELSE resolved(@, response, TRUE, response.body)]
  /\ unchangedConfig

startChatSession(c) ==
  /\ calls[c].pc = "idle"
  /\ calls' = [calls EXCEPT ![c] =
       sent(@, "startChatSession", Undefined,
            fetchRequest("POST", "/api/chat/start-session", NoQuery, NoBody,
                         NoHeaders))]
  /\ unchangedConfig

startChatSession_resume(c, response) ==
  /\ awaiting(c, "startChatSession")
  /\ calls' = [calls EXCEPT ![c] =
       IF response = NetworkError
         THEN rejected(@, response, FALSE, TypeError)
       ELSE IF ~ok(response.status)
         THEN rejected(@, response, FALSE, Error("Failed to start chat session"))
       ELSE IF response.body = Malformed
         THEN rejected(@, response, TRUE, SyntaxError)
       ELSE resolved(@, response, TRUE, response.body)]
  /\ unchangedConfig

(***************************************************************************)
(* The inputs: arguments of the calls and answers of the transport.        *)
(***************************************************************************)
SeqsUpTo(S, n) == UNION {[1..k -> S] : k \in 0..n}

Files == {File("a.pdf"), File("b.png")}
OptStr == {Undefined, Null, Str(""), Str("flu")}
PatientCreates ==
  [name : {Str("Ann")}, date_of_birth : {Str("1990-01-01")},
   diagnosis : OptStr, prescription : OptStr,
   confidence_score : {Undefined, Num(1)}, raw_text : {Undefined, Str("raw")}]
PatientUpdates ==
  [name : {Undefined, Str("Ann")}, date_of_birth : {Str("1990-01-01")},
   diagnosis : OptStr, prescription : OptStr]
ChatMessages == [query : {Str("hi")}, session_id : {Undefined, Str("s1")}]
PatientIds == {"p1", "p2"}
ContextIds == {<<"p","1">>, <<"p","2">>}
Limits == {Undefined} \cup {Num(n) : n \in {0, 5, 10, MaxLimit}}

Statuses == {200, 201, 404, 500}
Envelopes ==
  {Envelope(p, ps, Undefined) :
     p \in {Undefined, Patient("p1")},
     ps \in {Undefined, Null, Arr(<<>>), Arr(<<Patient("p1")>>)}}
  \cup {Envelope(Undefined, Undefined, Str("s1"))}
Bodies == {Malformed} \cup Envelopes
Responses == {NetworkError} \cup [status : Statuses, body : Bodies]

\* The inputs of the one-call specification.
AllInputs ==
  [files |-> Files,
   fileLists |-> {Arr(a) : a \in SeqsUpTo(Files, MaxFiles)},
   optFileLists |-> {Undefined} \cup {Arr(a) : a \in SeqsUpTo(Files, MaxFiles)},
   patientCreates |-> PatientCreates,
   patientUpdates |-> PatientUpdates,
   messages |-> ChatMessages,
   ids |-> PatientIds,
   sessionIds |-> {"s1", "s2"},
   queries |-> {"hello", ""},
   contextIds |-> {Undefined} \cup {Arr(a) : a \in SeqsUpTo(ContextIds, MaxIds)},
   limits |-> Limits,
   responses |-> Responses]

\* A few inputs of each kind, for the calls that run concurrently.
FewInputs ==
  [files |-> {File("a.pdf")},
   fileLists |-> {Arr(<<File("a.pdf")>>)},
   optFileLists |-> {Undefined},
   patientCreates |->
     {[name |-> Str("Ann"), date_of_birth |-> Str("1990-01-01"),
       diagnosis |-> Str("flu"), prescription |-> Undefined,
       confidence_score |-> Undefined, raw_text |-> Undefined]},
   patientUpdates |->
     {[name |-> Str("Ann"), date_of_birth |-> Str("1990-01-01"),
       diagnosis |-> Null, prescription |-> Str("flu")]},
   messages |-> {[query |-> Str("hi"), session_id |-> Str("s1")]},
   ids |-> {"p1"},
   sessionIds |-> {"s1"},
   queries |-> {"hello"},
   contextIds |-> {Arr(<< <<"p","1">>, <<"p","2">> >>)},
   limits |-> {Num(5)},
   responses |->
     {NetworkError,
      [status |-> 500, body |-> Envelope(Undefined, Undefined, Undefined)],
      [status |-> 200,
       body |-> Envelope(Patient("p1"), Arr(<<Patient("p1")>>), Str("s1"))]}]

(***************************************************************************)
(* The state machine.                                                      *)
(***************************************************************************)
Init ==
  /\ env \in EnvValues
  /\ API_BASE_URL = BaseUrlOf(env)
  /\ api = axios_create(API_BASE_URL)
  /\ calls = [c \in CallIds |-> IdleCall]

\* One step of call c with inputs drawn from I.
Step(c, I) ==
  \/ \E file \in I.files : uploadDocument(c, file)
  \/ \E files \in I.fileLists : uploadDocuments(c, files)
  \/ getSupportedTypes(c)
  \/ \E patientData \in I.patientCreates : createPatient(c, patientData)
  \/ getPatients(c)
  \/ \E id \in I.ids : getPatient(c, id)
  \/ \E id \in I.ids, patientData \in I.patientUpdates :
       updatePatient(c, id, patientData)
  \/ \E id \in I.ids : deletePatient(c, id)
  \/ \E message \in I.messages : sendMessage(c, message)
  \/ refreshKnowledgeBase(c)
  \/ \E sessionId \in I.sessionIds, query \in I.queries,
        files \in I.optFileLists :
       sendMessageWithPatientContext(c, sessionId, query, files)
  \/ \E patientIds \in I.contextIds, limit \in I.limits :
       getPatientContext(c, patientIds, limit)
  \/ startChatSession(c)
  \/ \E response \in I.responses :
       \/ uploadDocument_resume(c, response)
       \/ uploadDocuments_resume(c, response)
       \/ getSupportedTypes_resume(c, response)
       \/ createPatient_resume(c, response)
       \/ getPatients_resume(c, response)
       \/ getPatient_resume(c, response)
       \/ updatePatient_resume(c, response)
       \/ deletePatient_resume(c, response)
       \/ sendMessage_resume(c, response)
       \/ refreshKnowledgeBase_resume(c, response)
       \/ sendMessageWithPatientContext_resume(c, response)
       \/ getPatientContext_resume(c, response)
       \/ startChatSession_resume(c, response)

\* One call, every input.
Next == Step(1, AllInputs)

Spec == Init /\ [][Next]_vars

\* Any number of calls up to MaxCalls in flight at once, their responses
\* arriving in any order.
NextConcurrent == \E c \in CallIds : Step(c, FewInputs)

SpecConcurrent == Init /\ [][NextConcurrent]_vars

(***************************************************************************)
(* Properties.                                                             *)
(***************************************************************************)
Settled(c) == calls[c].pc \in {"resolved", "rejected"}
Started(c) == calls[c].pc # "idle"
Request(c) == calls[c].requests[1]
Answered(c) == Settled(c) /\ calls[c].response # NetworkError
Success(c) == Answered(c) /\ calls[c].response.status \in 200..299
Failure(c) == Answered(c) /\ calls[c].response.status \notin 200..299
IsEnvelope(c) == calls[c].response.body.t = "object"

Contains(s, sub) ==
  \E i \in 1..(Len(s) - Len(sub) + 1) : SubSeq(s, i, i + Len(sub) - 1) = sub

FixedMessage ==
  [createPatient |-> "Failed to create patient",
   getPatients |-> "Failed to fetch patients",
   getPatient |-> "Failed to fetch patient",
   updatePatient |-> "Failed to update patient",
   deletePatient |-> "Failed to delete patient"]

\* C1: each of the five patient operations, answered with a status outside
\* 2xx, rejects with an Error carrying exactly that operation's fixed
\* message, whatever the body; the body is not parsed and nothing is returned.
C1_FixedMessageOnFailure ==
  \A c \in CallIds :
    (calls[c].op \in DOMAIN FixedMessage /\ Failure(c)) =>
      /\ calls[c].pc = "rejected"
      /\ calls[c].result =
           [t |-> "error", name |-> "Error", message |-> FixedMessage[calls[c].op]]
      /\ ~calls[c].parsed

\* C1 witness: an update answered 404 with a body that carries a patient.
C1_Witness ==
  \E c \in CallIds :
    /\ calls[c].op = "updatePatient"
    /\ Failure(c)
    /\ calls[c].response.status = 404
    /\ calls[c].response.body = Envelope(Patient("p1"), Undefined, Undefined)
    /\ calls[c].pc = "rejected"

\* C2: createPatient always sends confidence_score and raw_text as null,
\* whatever the input holds, and on a 2xx response with an envelope it
\* resolves with exactly the envelope's `patient`.
C2_CreateNullsAndUnwrap ==
  \A c \in CallIds :
    calls[c].op = "createPatient" =>
      /\ Len(calls[c].requests) = 1
      /\ Request(c).body.t = "json"
      /\ {"confidence_score", "raw_text"} \subseteq DOMAIN Request(c).body.v
      /\ Request(c).body.v["confidence_score"] = Null
      /\ Request(c).body.v["raw_text"] = Null
      /\ (Success(c) /\ IsEnvelope(c)) =>
           /\ calls[c].pc = "resolved"
           /\ calls[c].result = calls[c].response.body.patient

\* C2 witness: an input that carries both server-computed fields, created
\* with status 201 and resolved with the patient of the envelope.
C2_Witness ==
  \E c \in CallIds :
    /\ calls[c].op = "createPatient"
    /\ calls[c].args.patientData.confidence_score = Num(1)
    /\ calls[c].args.patientData.raw_text = Str("raw")
    /\ Success(c)
    /\ calls[c].response.status = 201
    /\ calls[c].result = Patient("p1")

\* What a resolved call hands back without having taken it from the
\* response: not the body, not one of its fields, not the `undefined` of an
\* operation that returns nothing.
Substituted(c) ==
  /\ calls[c].pc = "resolved"
  /\ calls[c].result # Undefined
  /\ calls[c].result # calls[c].response.body
  /\ IsEnvelope(c) =>
       /\ calls[c].result # calls[c].response.body.patient
       /\ calls[c].result # calls[c].response.body.patients

OneRequestAndFailuresReject ==
  \A c \in CallIds :
    /\ Len(calls[c].requests) <= 1
    /\ Started(c) => Len(calls[c].requests) = 1
    /\ (Settled(c) /\ (calls[c].response = NetworkError \/ Failure(c))) =>
         /\ calls[c].pc = "rejected"
         /\ calls[c].result.t = "error"

\* C3 as stated: one request per call, every failure is a rejection, and a
\* value is substituted only by getPatients, as the empty list, when the
\* successful response has no `patients`.
C3_Original ==
  /\ OneRequestAndFailuresReject
  /\ \A c \in CallIds :
       Substituted(c) =>
         /\ calls[c].op = "getPatients"
         /\ calls[c].result = Arr(<<>>)
         /\ calls[c].response.body.patients = Undefined

\* C3 amended: one request per call, every failure (no response, or a status
\* outside 2xx) is a rejection, and a value is substituted only by
\* getPatients, as the empty list, when the `patients` of the successful
\* response is absent or falsy (null).
C3_NoRetryNoRecovery ==
  /\ OneRequestAndFailuresReject
  /\ \A c \in CallIds :
       Substituted(c) =>
         /\ calls[c].op = "getPatients"
         /\ calls[c].result = Arr(<<>>)
         /\ calls[c].response.body.patients \in {Undefined, Null}

\* C3 witness: a call whose transport failed is rejected after its single
\* request.
C3_Witness ==
  \E c \in CallIds :
    /\ calls[c].op = "getSupportedTypes"
    /\ calls[c].response = NetworkError
    /\ calls[c].pc = "rejected"
    /\ Len(calls[c].requests) = 1

\* application/x-www-form-urlencoded of each id, the ids joined by the
\* encoded comma.
RECURSIVE EncodedIds(_)
EncodedIds(ids) ==
  IF Len(ids) = 1 THEN urlencode(ids[1])
  ELSE urlencode(ids[1]) \o <<"%","2","C">> \o EncodedIds(Tail(ids))

RECURSIVE LiteralIds(_)
LiteralIds(ids) ==
  IF Len(ids) = 1 THEN ids[1]
  ELSE ids[1] \o <<",">> \o LiteralIds(Tail(ids))

HasIds(c) ==
  /\ calls[c].args.patientIds # Undefined
  /\ Len(calls[c].args.patientIds.v) > 0

LimitOf(c) ==
  IF calls[c].args.limit = Undefined THEN 10 ELSE calls[c].args.limit.v

\* The parts of the claim about getPatientContext that do not depend on how
\* the ids are written: one GET, limit (10 when omitted), include_recent,
\* and no patient_ids parameter without ids.
ContextQueryFrame(c) ==
  /\ Len(calls[c].requests) = 1
  /\ Request(c).method = "GET"
  /\ Request(c).path = "/api/patients/context/chat"
  /\ Contains(<<"&">> \o Request(c).query \o <<"&">>,
              <<"&">> \o s_limit \o <<"=">> \o toString(LimitOf(c)) \o <<"&">>)
  /\ Contains(Request(c).query, s_include_recent \o <<"=">> \o s_true)
  /\ ~HasIds(c) => ~Contains(Request(c).query, s_patient_ids)

\* C4 as stated: the query string holds patient_ids= followed by the ids
\* joined with literal commas.
C4_Original ==
  \A c \in CallIds :
    calls[c].op = "getPatientContext" =>
      /\ ContextQueryFrame(c)
      /\ HasIds(c) =>
           Contains(Request(c).query,
                    s_patient_ids \o <<"=">> \o LiteralIds(calls[c].args.patientIds.v))

\* C4 amended: the query string holds patient_ids= followed by the
\* form-urlencoded ids joined by the encoded comma %2C, then limit=n (10
\* when omitted) and include_recent=true; without ids no patient_ids.
C4_ContextQuery ==
  \A c \in CallIds :
    calls[c].op = "getPatientContext" =>
      /\ ContextQueryFrame(c)
      /\ HasIds(c) =>
           Contains(Request(c).query,
                    s_patient_ids \o <<"=">>
                      \o EncodedIds(calls[c].args.patientIds.v) \o <<"&">>)

\* C4 witness: getPatientContext(["p1","p2"], 5) has been sent.
C4_Witness ==
  \E c \in CallIds :
    /\ calls[c].op = "getPatientContext"
    /\ calls[c].args.patientIds = Arr(<< <<"p","1">>, <<"p","2">> >>)
    /\ calls[c].args.limit = Num(5)
    /\ Started(c)

\* C5: the form of sendMessageWithPatientContext holds, in this order,
\* session_id, query, include_all_patients=true, max_patients=10 and then
\* one `files` entry per file in the order given; none without files.
C5_FormEntries ==
  \A c \in CallIds :
    calls[c].op = "sendMessageWithPatientContext" =>
      LET e == Request(c).body.v
          f == IF calls[c].args.files = Undefined THEN <<>>
               ELSE calls[c].args.files.v
      IN /\ Len(calls[c].requests) = 1
         /\ Request(c).body.t = "form"
         /\ Len(e) = 4 + Len(f)
         /\ e[1] = [name |-> "session_id", value |-> Str(calls[c].args.sessionId)]
         /\ e[2] = [name |-> "query", value |-> Str(calls[c].args.query)]
         /\ e[3] = [name |-> "include_all_patients", value |-> Str("true")]
         /\ e[4] = [name |-> "max_patients", value |-> Str("10")]
         /\ \A i \in 1..Len(f) : e[4 + i] = [name |-> "files", value |-> f[i]]

\* C5 witness: a message sent with two different files.
C5_Witness ==
  \E c \in CallIds :
    /\ calls[c].op = "sendMessageWithPatientContext"
    /\ calls[c].args.files = Arr(<<File("b.png"), File("a.pdf")>>)
    /\ Started(c)

\* C6: on a 2xx response whose envelope has no `patients`, getPatients
\* resolves with the empty list; when `patients` is an array, that array is
\* the result.
C6_PatientsDefault ==
  \A c \in CallIds :
    (calls[c].op = "getPatients" /\ Success(c) /\ IsEnvelope(c)) =>
      LET patients == calls[c].response.body.patients
      IN /\ patients = Undefined =>
              calls[c].pc = "resolved" /\ calls[c].result = Arr(<<>>)
         /\ patients.t = "array" =>
              calls[c].pc = "resolved" /\ calls[c].result = patients

\* C6 witness: getPatients resolved with [] on an envelope without patients.
C6_Witness ==
  \E c \in CallIds :
    /\ calls[c].op = "getPatients"
    /\ Success(c)
    /\ calls[c].response.body = Envelope(Undefined, Undefined, Undefined)
    /\ calls[c].result = Arr(<<>>)

\* C9: updatePatient sends a PUT whose JSON body carries diagnosis and
\* prescription as the caller gave them: a string (the empty one included)
\* unchanged, null as null, and nothing in place of a field not given.
C9_UpdatePassThrough ==
  \A c \in CallIds :
    calls[c].op = "updatePatient" =>
      /\ Len(calls[c].requests) = 1
      /\ Request(c).method = "PUT"
      /\ Request(c).body.t = "json"
      /\ \A k \in {"diagnosis", "prescription"} :
           LET given == calls[c].args.patientData[k]
           IN IF given = Undefined
                THEN k \notin DOMAIN Request(c).body.v
                ELSE /\ k \in DOMAIN Request(c).body.v
                     /\ Request(c).body.v[k] = given

\* C9 witness: an update with an empty diagnosis and a null prescription.
C9_Witness ==
  \E c \in CallIds :
    /\ calls[c].op = "updatePatient"
    /\ calls[c].args.patientData.diagnosis = Str("")
    /\ calls[c].args.patientData.prescription = Null
    /\ Started(c)

\* C7: a request with a JSON body carries Content-Type application/json,
\* and a multipart request carries no Content-Type set by the client.
C7_ContentTypes ==
  \A c \in CallIds :
    Started(c) =>
      /\ Request(c).body.t = "json" =>
           /\ "Content-Type" \in DOMAIN Request(c).headers
           /\ Request(c).headers["Content-Type"] = "application/json"
      /\ Request(c).body.t = "form" =>
           "Content-Type" \notin DOMAIN Request(c).headers

\* C8: every request goes to the configured base address (the environment
\* setting, or the development default when it is unset or empty) followed
\* by the path of the operation.
C8_OneBaseAddress ==
  \A c \in CallIds :
    Started(c) =>
      Request(c).origin =
        (IF env \in {Undefined, Str("")} THEN Str("http://localhost:8000") ELSE env)

\* C10: the shared configuration stays what the initialisation made it, a
\* step of one call leaves every other call as it was, and two calls of the
\* same operation with the same arguments send the same request and, given
\* the same response, settle the same way, whatever else is in flight.
ConfigAsInitialised ==
  /\ API_BASE_URL = (IF env \in {Undefined, Str("")}
                       THEN Str("http://localhost:8000") ELSE env)
  /\ api = [baseURL |-> API_BASE_URL,
            headers |-> ("Content-Type" :> "application/json")]

OwnInputsOnly ==
  \A c, d \in CallIds :
    (calls[c].op = calls[d].op /\ calls[c].args = calls[d].args) =>
      /\ calls[c].requests = calls[d].requests
      /\ (Settled(c) /\ Settled(d) /\ calls[c].response = calls[d].response) =>
           /\ calls[c].pc = calls[d].pc
           /\ calls[c].result = calls[d].result
           /\ calls[c].parsed = calls[d].parsed

OneCallPerStep ==
  /\ UNCHANGED <<env, API_BASE_URL, api>>
  /\ \E c \in CallIds : \A d \in CallIds \ {c} : calls'[d] = calls[d]

C10_Isolation == [](ConfigAsInitialised /\ OwnInputsOnly) /\ [][OneCallPerStep]_vars

\* C10 witness: two calls of getPatients that sent the same request; one has
\* resolved, the other was rejected.
C10_Witness ==
  \E c, d \in CallIds :
    /\ c # d
    /\ calls[c].op = "getPatients" /\ calls[d].op = "getPatients"
    /\ calls[c].pc = "resolved" /\ calls[d].pc = "rejected"
    /\ calls[c].requests = calls[d].requests

====
